---- MODULE Spec2Model ----
(***************************************************************************)
(* Model of src/Energy.py: a Streamlit dashboard script.  The script is    *)
(* re-executed from its first line on every rerun (widget event, refresh   *)
(* tick); session state, the cache of load_data and the registered button  *)
(* callback survive between runs.  Time is counted in whole seconds.       *)
(* Numeric readings are fixed-point integers in tenths, prices are in      *)
(* hundredths, so a cost is in thousandths.                                *)
(***************************************************************************)
EXTENDS Integers, Sequences, FiniteSets, TLC

VARIABLES
    file,             \* energy_log.csv on disk (written by an external logger)
    cache,            \* st.cache_data store of load_data, per argument value
    now,              \* wall clock read by time.time()
    device_status,    \* st.session_state.device_status
    last_api_call,    \* st.session_state.last_api_call
    button,           \* is_on seen by the handle_toggle of the displayed button
    refresh_interval, \* value of the slider "refresh_slider"
    cost_per_kwh,     \* value of the number input / st.session_state.cost_per_kwh
    pc,               \* position of the running script
    df,               \* table returned by the last load_data call
    shown_error,      \* st.error of load_data shown by the last section 6
    view,             \* what the last section 6 displayed
    did_read,         \* the last load_data call executed its body (read the file)
    last_d,           \* argument of the last load_data call (0: no call yet)
    toast,            \* st.toast shown by the last handle_toggle
    toggles           \* number of handled toggle triggers

vars == <<file, cache, now, device_status, last_api_call, button,
          refresh_interval, cost_per_kwh, pc, df, shown_error, view,
          did_read, last_d, toast, toggles>>

----------------------------------------------------------------------------
(* Bounds of the model *)

MaxRows == 3
MaxTime == 3

(* Program constants *)

TTL == 5
SliderMax == 30
SliderDefault == 5
MinPrice == 1
DefaultPrice == 750
PriceStep == 10
NaT == 0
NaN == -999999999

SchemaCols == <<"Timestamp", "Voltage (V)", "Current (A)", "Power (W)",
                "Energy (kWh)", "Status">>

----------------------------------------------------------------------------
(* Cell conversions *)

\* pd.to_datetime(..., errors="coerce"): the instant a cell denotes, NaT for
\* a cell that does not parse
to_datetime(cell) ==
    CASE cell = "2024-01-01 00:00:01" -> 1
      [] cell = "2024-01-01 00:00:02" -> 2
      [] cell = "2024-01-01 00:00:03" -> 3
      [] OTHER -> NaT

\* pd.to_numeric(..., errors='coerce'): the value in tenths, NaN for a cell
\* that is not a number
to_numeric(cell) ==
    CASE cell = "1.0" -> 10
      [] cell = "1.2" -> 12
      [] cell = "1.5" -> 15
      [] cell = "10.0" -> 100
      [] cell = "100.0" -> 1000
      [] cell = "120.0" -> 1200
      [] OTHER -> NaN

----------------------------------------------------------------------------
(* Files *)

T1 == "2024-01-01 00:00:01"
T2 == "2024-01-01 00:00:02"
T3 == "2024-01-01 00:00:03"

CsvRow(ts, v, i, p, e, st) ==
    [Timestamp |-> ts, V |-> v, I |-> i, P |-> p, E |-> e, Status |-> st]

\* Lines an external logger may have written
RowPool ==
    { CsvRow(T1, "1.0", "1.0", "100.0", "1.0", "ON"),
      CsvRow(T2, "1.2", "1.0", "120.0", "1.5", "ON"),
      CsvRow(T3, "1.0", "1.2", "100.0", "1.2", "ON"),
      CsvRow(T2, "abc", "1.0", "abc", "10.0", "OFF"),
      CsvRow(T1, "1.5", "abc", "120.0", "abc", "ON"),
      CsvRow("not a date", "1.0", "1.0", "120.0", "1.5", "ON"),
      CsvRow("", "abc", "1.2", "100.0", "10.0", "OFF") }

SeqsUpTo(S, n) == UNION { [1..k -> S] : k \in 0..n }

CsvOf(rows) == [kind |-> "csv", rows |-> rows]
Absent == [kind |-> "absent", rows |-> <<>>]
Malformed == [kind |-> "malformed", rows |-> <<>>]

AllFiles == {Absent, Malformed} \cup { CsvOf(r) : r \in SeqsUpTo(RowPool, MaxRows) }

----------------------------------------------------------------------------
(* load_data body *)

EmptyFrame == [cols |-> SchemaCols, rows |-> <<>>]

\* pd.read_csv: one record per line under a RangeIndex
read_csv(f) ==
    [cols |-> SchemaCols,
     rows |-> [k \in 1..Len(f.rows) |-> [idx |-> k - 1] @@ f.rows[k]]]

\* df["Timestamp"] = pd.to_datetime(df["Timestamp"], errors="coerce", ...)
ConvertTimestamp(rows) ==
    [k \in 1..Len(rows) |->
        [rows[k] EXCEPT !.Timestamp = to_datetime(rows[k].Timestamp)]]

\* df.dropna(subset=["Timestamp"])
IsValidTs(r) == r.Timestamp # NaT
dropna(rows) == SelectSeq(rows, IsValidTs)

\* variant: a row with a cell that is not a number is dropped
AllNumeric(r) == r.V # NaN /\ r.I # NaN /\ r.P # NaN /\ r.E # NaN
ConvertNumericDroppingRows(rows) ==
    SelectSeq([k \in 1..Len(rows) |->
                  [rows[k] EXCEPT !.V = to_numeric(rows[k].V),
                                  !.I = to_numeric(rows[k].I),
                                  !.P = to_numeric(rows[k].P),
                                  !.E = to_numeric(rows[k].E)]], AllNumeric)

\* for col in numeric_cols: df[col] = pd.to_numeric(df[col], errors='coerce')
ConvertNumeric(rows) ==
    [k \in 1..Len(rows) |->
        [rows[k] EXCEPT !.V = to_numeric(rows[k].V),
                        !.I = to_numeric(rows[k].I),
                        !.P = to_numeric(rows[k].P),
                        !.E = to_numeric(rows[k].E)]]

\* variant: keep='first'
RECURSIVE drop_duplicates_keep_first(_)
drop_duplicates_keep_first(rows) ==
    IF rows = <<>> THEN <<>>
    ELSE IF \E j \in 1..(Len(rows) - 1) :
                rows[j].Timestamp = rows[Len(rows)].Timestamp
         THEN drop_duplicates_keep_first(SubSeq(rows, 1, Len(rows) - 1))
         ELSE drop_duplicates_keep_first(SubSeq(rows, 1, Len(rows) - 1))
                 \o <<rows[Len(rows)]>>

\* df.drop_duplicates(subset=["Timestamp"], keep='last')
RECURSIVE drop_duplicates(_)
drop_duplicates(rows) ==
    IF rows = <<>> THEN <<>>
    ELSE IF \E j \in 2..Len(rows) : rows[j].Timestamp = rows[1].Timestamp
         THEN drop_duplicates(Tail(rows))
         ELSE <<rows[1]>> \o drop_duplicates(Tail(rows))

\* insertion of one row into rows already sorted by Timestamp
RECURSIVE InsertSorted(_, _)
InsertSorted(r, rows) ==
    IF rows = <<>> THEN <<r>>
    ELSE IF r.Timestamp < rows[1].Timestamp
         THEN <<r>> \o rows
         ELSE <<rows[1]>> \o InsertSorted(r, Tail(rows))

\* variant: the rows stay in file order
sort_values_omitted(rows) == rows

\* df.sort_values("Timestamp")
RECURSIVE sort_values(_)
sort_values(rows) ==
    IF rows = <<>> THEN <<>>
    ELSE InsertSorted(rows[1], sort_values(Tail(rows)))

\* df.reset_index(drop=True)
reset_index(rows) == [k \in 1..Len(rows) |-> [rows[k] EXCEPT !.idx = k - 1]]

\* the try block of load_data
ParseCsv(f) ==
    [cols |-> SchemaCols,
     rows |-> reset_index(sort_values(drop_duplicates(
                 ConvertNumeric(dropna(ConvertTimestamp(read_csv(f).rows))))))]

\* variant: a missing file is reported as an error
MissingFileReported == [df |-> EmptyFrame, error |-> TRUE]

\* the branch taken when os.path.exists(CSV_FILE) is false
MissingFileResult == [df |-> EmptyFrame, error |-> FALSE]

\* the except branch: st.error(...) and the empty frame
ParseFailureResult == [df |-> EmptyFrame, error |-> TRUE]

\* load_data's body: the table and whether st.error was called
load_body(f) ==
    IF f.kind = "absent" THEN MissingFileResult
    ELSE IF f.kind = "malformed" THEN ParseFailureResult
    ELSE [df |-> ParseCsv(f), error |-> FALSE]

----------------------------------------------------------------------------
(* st.cache_data(ttl=5) around load_data *)

SliderValues == {SliderDefault, SliderMax}
PriceInputs == {DefaultPrice, DefaultPrice + PriceStep}

NoEntry == <<>>
EmptyCache == [d \in SliderValues |-> NoEntry]

\* variant: the lifetime follows the slider value
CacheHitWithinArgument(c, d) == c[d] # NoEntry /\ c[d][1].age < d

\* an entry is served while it is younger than the decorator's ttl
CacheHit(c, d) == c[d] # NoEntry /\ c[d][1].age < TTL

\* load_data(refresh_interval) as the caller sees it: the cache is keyed by
\* the argument; on a miss the body runs and its result is stored
load_data(c, d, f) ==
    IF CacheHit(c, d)
    THEN [value |-> c[d][1].value, cache |-> c, read |-> FALSE]
    ELSE LET v == load_body(f) IN
         [value |-> v,
          cache |-> [c EXCEPT ![d] = <<[age |-> 0, value |-> v]>>],
          read |-> TRUE]

\* one second passes: every entry ages; an entry older than ttl is gone
AgeCache(c) ==
    [d \in DOMAIN c |->
        IF c[d] = NoEntry \/ c[d][1].age >= TTL THEN NoEntry
        ELSE <<[c[d][1] EXCEPT !.age = @ + 1]>>]

----------------------------------------------------------------------------
(* Section 6: metrics *)

Sub(a, b) == IF a = NaN \/ b = NaN THEN NaN ELSE a - b
Mul(a, b) == IF a = NaN \/ b = NaN THEN NaN ELSE a * b

\* variant: the last row's value
ColLast(vals) == vals[Len(vals)]

\* Series.max(): the greatest value present, NaN when none is
ColMax(vals) ==
    LET present == { vals[k] : k \in 1..Len(vals) } \ {NaN} IN
    IF present = {} THEN NaN
    ELSE CHOOSE m \in present : \A x \in present : x <= m

Column(rows, col) ==
    [k \in 1..Len(rows) |->
        CASE col = "P" -> rows[k].P
          [] col = "E" -> rows[k].E
          [] col = "V" -> rows[k].V
          [] OTHER -> rows[k].I]

\* variant: only the empty table is insufficient
InsufficientOnlyEmpty(d) == Len(d.rows) = 0

\* if df.empty or len(df) < 2
Insufficient(d) == Len(d.rows) = 0 \/ Len(d.rows) < 2

WaitingView == [kind |-> "waiting", m |-> <<>>]

\* .iloc[-2] on a one-row table raises IndexError: the run dies
ExceptionView == [kind |-> "exception", m |-> <<>>]

\* the else branch of section 6
Metrics(d, price) ==
    LET n == Len(d.rows)
        total_energy == ColMax(Column(d.rows, "E"))
    IN [latest |-> d.rows[n],
        power_delta |-> Sub(d.rows[n].P, d.rows[n - 1].P),
        energy_delta |-> Sub(d.rows[n].E, d.rows[n - 1].E),
        total_energy |-> total_energy,
        max_power |-> ColMax(Column(d.rows, "P")),
        total_cost |-> Mul(total_energy, price)]

Render(d, price) ==
    IF Insufficient(d) THEN WaitingView
    ELSE IF Len(d.rows) < 2 THEN ExceptionView
    ELSE [kind |-> "metrics", m |-> <<Metrics(d, price)>>]

----------------------------------------------------------------------------
(* Device control *)

\* control_device_api: the session state it leaves and what it returns
control_device_api(new_state, t) ==
    [device_status |-> new_state, last_api_call |-> t, ret |-> TRUE]

\* handle_toggle, with the is_on of the run that registered the button
handle_toggle(is_on, t) ==
    LET new_state == IF is_on THEN "OFF" ELSE "ON"
        r == control_device_api(new_state, t)
    IN [device_status |-> r.device_status,
        last_api_call |-> r.last_api_call,
        toast |-> IF r.ret THEN "success" ELSE "error"]

----------------------------------------------------------------------------
(* The script, one step per section *)

\* sections 1-4: configuration, session state defaults, sidebar widgets
RunSidebar ==
    /\ pc = "sidebar"
    /\ pc' = "control"
    /\ UNCHANGED <<file, cache, now, device_status, last_api_call, button,
                   refresh_interval, cost_per_kwh, df, shown_error, view,
                   did_read, last_d, toast, toggles>>

\* section 5: current_status is read and the button registered with a
\* handle_toggle that sees this run's is_on
RunControl ==
    /\ pc = "control"
    /\ button' = device_status
    /\ pc' = "data"
    /\ UNCHANGED <<file, cache, now, device_status, last_api_call,
                   refresh_interval, cost_per_kwh, df, shown_error, view,
                   did_read, last_d, toast, toggles>>

\* section 6: df = load_data(refresh_interval), then waiting or metrics
RunData ==
    /\ pc = "data"
    /\ LET r == load_data(cache, refresh_interval, file) IN
        /\ cache' = r.cache
        /\ df' = r.value.df
        /\ shown_error' = r.value.error
        /\ did_read' = r.read
        /\ view' = Render(r.value.df, cost_per_kwh)
    /\ last_d' = refresh_interval
    /\ pc' = "idle"
    /\ UNCHANGED <<file, now, device_status, last_api_call, button,
                   refresh_interval, cost_per_kwh, toast, toggles>>

----------------------------------------------------------------------------
(* Events: each stops the running script and starts a rerun *)

\* the displayed button is clicked: its on_click callback runs, then the
\* script reruns; the click is handled at a later clock reading
ClickToggle ==
    /\ button # "none"
    /\ now < MaxTime
    /\ now' = now + 1
    /\ cache' = AgeCache(cache)
    /\ LET r == handle_toggle(button = "ON", now + 1) IN
        /\ device_status' = r.device_status
        /\ last_api_call' = r.last_api_call
        /\ toast' = r.toast
    /\ toggles' = toggles + 1
    /\ pc' = "sidebar"
    /\ UNCHANGED <<file, button, refresh_interval, cost_per_kwh, df,
                   shown_error, view, did_read, last_d>>

\* the operator moves the refresh slider
ChangeSlider ==
    /\ \E d \in SliderValues \ {refresh_interval} : refresh_interval' = d
    /\ pc' = "sidebar"
    /\ UNCHANGED <<file, cache, now, device_status, last_api_call, button,
                   cost_per_kwh, df, shown_error, view, did_read, last_d,
                   toast, toggles>>

\* the operator edits the unit price
ChangeCost ==
    /\ \E c \in PriceInputs \ {cost_per_kwh} : cost_per_kwh' = c
    /\ pc' = "sidebar"
    /\ UNCHANGED <<file, cache, now, device_status, last_api_call, button,
                   refresh_interval, df, shown_error, view, did_read, last_d,
                   toast, toggles>>

\* st_autorefresh fires
AutoRefresh ==
    /\ pc # "sidebar"
    /\ pc' = "sidebar"
    /\ UNCHANGED <<file, cache, now, device_status, last_api_call, button,
                   refresh_interval, cost_per_kwh, df, shown_error, view,
                   did_read, last_d, toast, toggles>>

----------------------------------------------------------------------------
(* Environment *)

TwoRows == CsvOf(<<CsvRow(T1, "1.0", "1.0", "100.0", "1.0", "ON"),
                   CsvRow(T2, "1.2", "1.0", "120.0", "1.5", "ON")>>)
TwoRowsLater == CsvOf(<<CsvRow(T3, "1.0", "1.2", "100.0", "1.2", "ON"),
                        CsvRow(T2, "abc", "1.0", "abc", "10.0", "OFF")>>)

\* contents the log file takes while a session runs
LogFiles == {Absent, TwoRows, TwoRowsLater}

\* the external logger rewrites energy_log.csv
WriteFile ==
    /\ \E f \in LogFiles \ {file} : file' = f
    /\ UNCHANGED <<cache, now, device_status, last_api_call, button,
                   refresh_interval, cost_per_kwh, pc, df, shown_error, view,
                   did_read, last_d, toast, toggles>>

\* one second passes
Elapse ==
    /\ now' = IF now < MaxTime THEN now + 1 ELSE now
    /\ cache' = AgeCache(cache)
    /\ UNCHANGED <<file, device_status, last_api_call, button,
                   refresh_interval, cost_per_kwh, pc, df, shown_error, view,
                   did_read, last_d, toast, toggles>>

----------------------------------------------------------------------------
(* Specifications *)

\* the state when the first run of the script starts
InitSession ==
    /\ cache = EmptyCache
    /\ now = 0
    /\ device_status = "OFF"
    /\ last_api_call = 0
    /\ button = "none"
    /\ refresh_interval = SliderDefault
    /\ pc = "sidebar"
    /\ df = EmptyFrame
    /\ shown_error = FALSE
    /\ view = WaitingView
    /\ did_read = FALSE
    /\ last_d = 0
    /\ toast = "none"
    /\ toggles = 0

Init ==
    /\ InitSession
    /\ file \in LogFiles
    /\ cost_per_kwh = DefaultPrice

Next ==
    \/ RunSidebar
    \/ RunControl
    \/ RunData
    \/ ClickToggle
    \/ ChangeSlider
    \/ ChangeCost
    \/ AutoRefresh
    \/ WriteFile
    \/ Elapse

Spec == Init /\ [][Next]_vars

\* a session over any log file and unit price, rerun by the refresh timer
InitLoad ==
    /\ InitSession
    /\ file \in AllFiles
    /\ cost_per_kwh \in PriceInputs \cup {MinPrice}

NextLoad ==
    \/ RunSidebar
    \/ RunControl
    \/ RunData
    \/ AutoRefresh

SpecLoad == InitLoad /\ [][NextLoad]_vars

\* Scheduling: the script thread runs each section it has reached unless an
\* event restarts it, the refresh timer keeps firing, and time passes.  The
\* three steps of the script are named by the move of pc that only they make.
Fairness ==
    /\ SF_pc(pc = "sidebar" /\ pc' = "control")
    /\ SF_pc(pc = "control" /\ pc' = "data")
    /\ SF_pc(pc = "data" /\ pc' = "idle")
    /\ WF_vars(AutoRefresh)
    /\ WF_vars(Elapse)

\* a session in which the operator leaves the device button and the price
\* alone: reruns come from the timer and the slider
NextLive ==
    \/ RunSidebar
    \/ RunControl
    \/ RunData
    \/ ChangeSlider
    \/ AutoRefresh
    \/ WriteFile
    \/ Elapse

LiveSpec == Init /\ [][NextLive]_vars /\ Fairness

----------------------------------------------------------------------------
(* What the file says, read independently of the loader's steps *)

\* the instants of the file's rows whose timestamp parses
TsOf(f) ==
    { to_datetime(f.rows[k].Timestamp) : k \in 1..Len(f.rows) } \ {NaT}

\* the position of the last line of the file with instant t
LastOcc(f, t) ==
    CHOOSE k \in 1..Len(f.rows) :
        /\ to_datetime(f.rows[k].Timestamp) = t
        /\ \A j \in (k + 1)..Len(f.rows) : to_datetime(f.rows[j].Timestamp) # t

\* table row `row` is file line r, each cell converted on its own
RowIs(row, r) ==
    /\ row.Timestamp = to_datetime(r.Timestamp)
    /\ row.V = to_numeric(r.V)
    /\ row.I = to_numeric(r.I)
    /\ row.P = to_numeric(r.P)
    /\ row.E = to_numeric(r.E)
    /\ row.Status = r.Status

MaxOfSet(S) == CHOOSE m \in S : \A x \in S : x <= m

\* m is the greatest value of S, missing when S is empty
IsMaxOf(m, S) == IF S = {} THEN m = NaN ELSE m \in S /\ \A x \in S : x <= m

\* a - b, missing when either is
SignedDiff(a, b) == IF a = NaN \/ b = NaN THEN NaN ELSE a - b

RowA == CsvRow(T1, "1.0", "1.0", "100.0", "1.0", "ON")
RowB == CsvRow(T2, "1.2", "1.0", "120.0", "1.5", "ON")
RowC == CsvRow(T3, "1.0", "1.2", "100.0", "1.2", "ON")
RowD == CsvRow(T2, "abc", "1.0", "abc", "10.0", "OFF")

GoodFiles == { f \in LogFiles : Cardinality(TsOf(f)) >= 2 }

\* the step of section 6
LoadStep == pc = "data" /\ pc' = "idle"

\* a click is handled
ToggleStep == toggles' = toggles + 1

----------------------------------------------------------------------------
(* Claims *)

\* C1: whenever the device is OFF and a toggle is handled, the state
\* afterwards is ON, the recorded last-change time is strictly later than
\* before, control_device_api returned True and the failure toast is not shown.
C1_ToggleFromOffTurnsOn ==
    [][(ToggleStep /\ device_status = "OFF")
          => /\ device_status' = "ON"
             /\ last_api_call' > last_api_call
             /\ toast' = "success"]_vars

\* C2: a load_data call with duration d made within d seconds of the call
\* that read the file with the same d returns that table without reading the
\* file again, and a call whose duration differs from the previous call's
\* always reads the file.
C2_CacheWindowFollowsDuration ==
    [][LoadStep
          => /\ (/\ cache[refresh_interval] # NoEntry
                 /\ cache[refresh_interval][1].age < refresh_interval)
                => /\ ~did_read'
                   /\ df' = cache[refresh_interval][1].value.df
             /\ (last_d # 0 /\ last_d # refresh_interval) => did_read']_vars

\* C3: while the file has zero or one valid row (distinct parseable
\* timestamps), every render shows the waiting indicator with no metrics
\* computed; metrics are shown only for a table of at least 2 rows.
C3_InsufficientDataWaits ==
    /\ Cardinality(TsOf(file)) <= 1 => view = WaitingView
    /\ view.kind = "metrics"
          => Len(df.rows) >= 2 /\ Cardinality(TsOf(file)) >= 2
    /\ view.kind # "exception"

C3_Witness ==
    /\ pc = "idle"
    /\ Len(file.rows) >= 2
    /\ Cardinality(TsOf(file)) = 1
    /\ view = WaitingView

\* C4: load_data returns the empty six-column table without an error when the
\* file is absent, and with a user-visible error when reading or parsing
\* fails; in both cases the render ends in the waiting state.
C4_LoadNeverFails ==
    pc = "idle"
        => /\ file.kind = "absent"
                => /\ df = EmptyFrame
                   /\ Len(df.cols) = 6
                   /\ ~shown_error
                   /\ view = WaitingView
           /\ file.kind = "malformed"
                => /\ df = EmptyFrame
                   /\ Len(df.cols) = 6
                   /\ shown_error
                   /\ view = WaitingView

C4_Witness ==
    pc = "idle" /\ file.kind = "malformed" /\ shown_error /\ view = WaitingView

\* C5: the timestamps of the loaded table are exactly the parseable
\* timestamps of the file, and every row of the table is a line of the file
\* with each cell converted on its own: a non-numeric cell is missing in the
\* table and the other cells of its row keep their values.
C5_RowMembership ==
    (pc = "idle" /\ file.kind = "csv")
        => /\ ~shown_error
           /\ { df.rows[k].Timestamp : k \in 1..Len(df.rows) } = TsOf(file)
           /\ \A k \in 1..Len(df.rows) :
                 \E j \in 1..Len(file.rows) : RowIs(df.rows[k], file.rows[j])

C5_Witness ==
    /\ pc = "idle"
    /\ \E j \in 1..Len(file.rows) : to_datetime(file.rows[j].Timestamp) = NaT
    /\ \E k \in 1..Len(df.rows) : df.rows[k].V = NaN /\ df.rows[k].E # NaN

\* C6: the loaded table has strictly ascending (hence distinct) timestamps
\* and the index 0, 1, 2, ...; for a timestamp that occurs several times in
\* the file the row kept is the last one in file order.
C6_UniqueSortedKeepLast ==
    pc = "idle"
        => /\ \A i, j \in 1..Len(df.rows) :
                 i < j => df.rows[i].Timestamp < df.rows[j].Timestamp
           /\ \A k \in 1..Len(df.rows) : df.rows[k].idx = k - 1
           /\ \A k \in 1..Len(df.rows) :
                 RowIs(df.rows[k],
                       file.rows[LastOcc(file, df.rows[k].Timestamp)])

C6_Witness ==
    /\ pc = "idle"
    /\ Len(df.rows) >= 2
    /\ \E i, j \in 1..Len(file.rows) :
          /\ i < j
          /\ file.rows[i].Timestamp = file.rows[j].Timestamp
          /\ to_datetime(file.rows[j].Timestamp) # NaT
          /\ to_numeric(file.rows[i].V) # NaN
          /\ to_numeric(file.rows[j].V) = NaN
          /\ \E k \in 1..Len(df.rows) :
                /\ df.rows[k].Timestamp = to_datetime(file.rows[j].Timestamp)
                /\ df.rows[k].V = NaN

\* C7: for a table of at least 2 rows, total accumulated energy is the
\* greatest energy value of the table and peak power the greatest power
\* value (missing cells apart), the cost is total energy times the unit price
\* set, and total energy is never below the latest row's energy; energies
\* 1.0, 1.5, 1.2 give 1.5, and 10.0 kWh at 7.50 cost 75.00.
C7_TotalsAndCost ==
    (pc = "idle" /\ Len(df.rows) >= 2)
        => /\ view.kind = "metrics"
           /\ LET m == view.m[1]
                  n == Len(df.rows)
                  energies == { df.rows[k].E : k \in 1..n } \ {NaN}
                  powers == { df.rows[k].P : k \in 1..n } \ {NaN}
              IN /\ IsMaxOf(m.total_energy, energies)
                 /\ IsMaxOf(m.max_power, powers)
                 /\ m.total_cost = IF m.total_energy = NaN THEN NaN
                                   ELSE m.total_energy * cost_per_kwh
                 /\ df.rows[n].E # NaN => m.total_energy >= df.rows[n].E
                 /\ file = CsvOf(<<RowA, RowB, RowC>>) => m.total_energy = 15
                 /\ (file = CsvOf(<<RowA, RowD>>) /\ cost_per_kwh = DefaultPrice)
                       => m.total_energy = 100 /\ m.total_cost = 75000

C7_Witness ==
    /\ pc = "idle"
    /\ Len(df.rows) >= 2
    /\ df.rows[Len(df.rows)].E # NaN
    /\ view.kind = "metrics"
    /\ view.m[1].total_energy > df.rows[Len(df.rows)].E

\* C8: for a table of at least 2 rows, the latest snapshot is the file's row
\* with the greatest timestamp and the power and energy deltas are its value
\* minus the value of the row with the second-greatest timestamp, wherever
\* the rows stand in the file; powers 100.0 then 120.0 give +20.0.
C8_LatestAndDeltas ==
    (pc = "idle" /\ Len(df.rows) >= 2)
        => /\ view.kind = "metrics"
           /\ LET m == view.m[1]
                  t1 == MaxOfSet(TsOf(file))
                  t2 == MaxOfSet(TsOf(file) \ {t1})
                  r1 == file.rows[LastOcc(file, t1)]
                  r2 == file.rows[LastOcc(file, t2)]
              IN /\ RowIs(m.latest, r1)
                 /\ m.power_delta = SignedDiff(to_numeric(r1.P), to_numeric(r2.P))
                 /\ m.energy_delta = SignedDiff(to_numeric(r1.E), to_numeric(r2.E))
                 /\ file \in {CsvOf(<<RowA, RowB>>), CsvOf(<<RowB, RowA>>)}
                       => m.power_delta = 200

C8_Witness ==
    /\ pc = "idle"
    /\ file = CsvOf(<<RowB, RowA>>)
    /\ view.kind = "metrics"
    /\ view.m[1].power_delta = 200

\* C9: every handled toggle flips the device state, so the state is ON
\* exactly after an odd number of toggles, also when two toggles are handled
\* with no render of the button between them; no other step changes the
\* device state or the last-change time.
C9_EveryToggleFlips ==
    [][/\ ToggleStep => device_status' # device_status
       /\ (device_status' = "ON") <=> (toggles' % 2 = 1)
       /\ ~ToggleStep => UNCHANGED <<device_status, last_api_call>>]_vars

====
